---- MODULE Spec2Model ----
(***************************************************************************)
(* Error classification and context propagation of the storage layer:     *)
(*   src/src/error.rs                 BackendError, ObjectError and the    *)
(*                                    three envelope constructors          *)
(*   src/src/services/ipmfs/error.rs  IpfsError and parse_error            *)
(*                                                                         *)
(* The functions are pure.  The state is the last call made by a caller    *)
(* (call) and the io::Error it got back (ret); one action per public       *)
(* function, its inputs drawn from small sets, and one for the caller     *)
(* dropping the envelope it holds.                                         *)
(*                                                                         *)
(* Rendered text (Display / Debug output) is a sequence of string tokens,  *)
(* concatenated with \o where the code's format strings concatenate.       *)
(***************************************************************************)
EXTENDS Integers, Sequences, FiniteSets, TLC

\* call: the function called and its arguments ([fn |-> "none"] before a
\*       call and after the envelope is dropped)
\* ret:  the io::Error the call returned: its kind and the error it holds
VARIABLES call, ret

vars == <<call, ret>>

(***************************************************************************)
(* Bounds of the model.                                                    *)
(***************************************************************************)
\* the largest number of members of a JSON object in a response body
MaxMembers == 2
\* the largest number of entries of a BackendError context map
MaxContext == 2

(***************************************************************************)
(* Inputs.                                                                 *)
(***************************************************************************)
INTERNAL_SERVER_ERROR == 500
BAD_GATEWAY == 502
SERVICE_UNAVAILABLE == 503
GATEWAY_TIMEOUT == 504

StatusCodes ==
    {200, 404, INTERNAL_SERVER_ERROR, BAD_GATEWAY, SERVICE_UNAVAILABLE,
     GATEWAY_TIMEOUT}

Operations == {"Read", "Stat"}

OperationDisplay(op) ==
    CASE op = "Read" -> "read"
      [] op = "Stat" -> "stat"

Paths == {"/", "dir/file"}

ErrorKind == {"NotFound", "Unsupported", "Interrupted", "Other"}

\* JSON scalars that occur in bodies: strings and integers.
Str(s) == [t |-> "str", s |-> s, n |-> 0]
Num(n) == [t |-> "num", s |-> "", n |-> n]

JsonValues ==
    {Str("file does not exist"), Str("disk quota exceeded"), Num(0), Num(1)}

\* The three renamed fields of IpfsError, in declaration order.
FieldNames == <<"Message", "Code", "Type">>
NumFields == 3

\* Keys of the objects in bodies: the three fields and one unknown key.
JsonKeys == {"Message", "Code", "Type", "Extra"}

Member(k, v) == [key |-> k, val |-> v]

Body(form, members) == [form |-> form, members |-> members]

ObjectBodies ==
    {Body("object", m) :
        m \in UNION {[1..n -> {Member(k, v) : k \in JsonKeys, v \in JsonValues}] :
                        n \in 0..MaxMembers}}

\* serde_json hands a JSON array to the derived visit_seq; the model holds
\* the arrays with one item per field
ArrayBodies ==
    {Body("array", m) : m \in [1..NumFields -> {Member("", v) : v \in JsonValues}]}

\* zero bytes, bytes that are no JSON, a JSON document that is a bare string
OtherBodies ==
    {Body("empty", <<>>), Body("text", <<>>),
     Body("scalar", <<Member("", Str("file does not exist"))>>)}

Bodies == ObjectBodies \cup ArrayBodies \cup OtherBodies

ErrorResponses == [status : StatusCodes, body : Bodies]

\* anyhow::Error holding a message
Anyhow(msg) == [type |-> "anyhow", msg |-> msg]

Sources == {Anyhow(<<"connection refused">>), Anyhow(<<"invalid endpoint">>)}

ContextKeys == {"endpoint", "bucket", "root"}
ContextValues == {"a", "b"}

\* all orders in which the keys K can be enumerated
Orders(K) ==
    {o \in [1..Cardinality(K) -> K] : \A i, j \in 1..Cardinality(K) : i # j => o[i] # o[j]}

\* HashMap<String, String>: its entries, and the order its iterator visits
\* them in, which the map's RandomState decides.
HashMaps ==
    UNION {UNION {{[entries |-> e, iter |-> o] : o \in Orders(K)} :
                     e \in [K -> ContextValues]} :
              K \in {S \in SUBSET ContextKeys : Cardinality(S) <= MaxContext}}

(***************************************************************************)
(* Rendering.                                                              *)
(***************************************************************************)
DebugValue(v) == IF v.t = "str" THEN <<"\"", v.s, "\"">> ELSE <<ToString(v.n)>>

RECURSIVE BodyMembers(_, _, _)
BodyMembers(members, i, keyed) ==
    IF i > Len(members) THEN <<>>
    ELSE (IF i > 1 THEN <<",">> ELSE <<>>)
         \o (IF keyed THEN <<"\"", members[i].key, "\":">> ELSE <<>>)
         \o DebugValue(members[i].val)
         \o BodyMembers(members, i + 1, keyed)

\* the bytes of a body, as text
BodyBytes(body) ==
    CASE body.form = "empty" -> <<>>
      [] body.form = "text" -> <<"not json">>
      [] body.form = "scalar" -> DebugValue(body.members[1].val)
      [] body.form = "array" -> <<"[">> \o BodyMembers(body.members, 1, FALSE) \o <<"]">>
      [] body.form = "object" -> <<"{">> \o BodyMembers(body.members, 1, TRUE) \o <<"}">>

\* Display of ErrorResponse
DisplayErrorResponse(er) ==
    <<"status code: ", ToString(er.status), ", body: ">> \o BodyBytes(er.body)

RECURSIVE DebugEntries(_, _)
DebugEntries(m, i) ==
    IF i > Len(m.iter) THEN <<>>
    ELSE (IF i > 1 THEN <<", ">> ELSE <<>>)
         \o <<"\"", m.iter[i], "\": \"", m.entries[m.iter[i]], "\"">>
         \o DebugEntries(m, i + 1)

\* {context:?}
DebugHashMap(m) == <<"{">> \o DebugEntries(m, 1) \o <<"}">>

DisplayAnyhow(e) == e.msg

DisplayObjectError_NoPath(e) ==
    <<"object error: (op: ", OperationDisplay(e.op), ", source: ">>
        \o DisplayAnyhow(e.source) \o <<")">>

DisplayObjectError(e) ==
    <<"object error: (op: ", OperationDisplay(e.op), ", path: ", e.path, ", source: ">>
        \o DisplayAnyhow(e.source) \o <<")">>

DisplayBackendError(e) ==
    <<"backend error: (context: ">> \o DebugHashMap(e.context) \o <<", source: ">>
        \o DisplayAnyhow(e.source) \o <<")">>

DisplayError(e) ==
    CASE e.type = "ObjectError" -> DisplayObjectError(e)
      [] e.type = "BackendError" -> DisplayBackendError(e)
      [] e.type = "anyhow" -> DisplayAnyhow(e)

(***************************************************************************)
(* src/src/error.rs                                                        *)
(***************************************************************************)
BackendError_new(context, source) ==
    [type |-> "BackendError", context |-> context, source |-> source]

ObjectError_new_DropPath(op, path, source) ==
    [type |-> "ObjectError", op |-> op, path |-> "", source |-> source]

ObjectError_new(op, path, source) ==
    [type |-> "ObjectError", op |-> op, path |-> path, source |-> source]

\* io::Error::new(kind, error)
Error_new(kind, error) == [kind |-> kind, error |-> error]

\* Display of io::Error: that of the error it holds
Message(e) == DisplayError(e.error)

UnsupportedText == "operation is not supported by underlying services"

new_unsupported_object_error_Other(op, path) ==
    Error_new("Other", ObjectError_new(op, path, Anyhow(<<UnsupportedText>>)))

new_unsupported_object_error(op, path) ==
    Error_new("Unsupported", ObjectError_new(op, path, Anyhow(<<UnsupportedText>>)))

new_other_object_error(op, path, source) ==
    Error_new("Other", ObjectError_new(op, path, source))

new_other_backend_error(context, source) ==
    Error_new("Other", BackendError_new(context, source))

(***************************************************************************)
(* src/src/services/ipmfs/error.rs                                         *)
(***************************************************************************)
\* IpfsError::default()
IpfsError_default == [message |-> "", code |-> 0, ty |-> ""]

DeOk(ie) == [ok |-> TRUE, value |-> ie, err |-> ""]
DeErr(err) == [ok |-> FALSE, value |-> IpfsError_default, err |-> err]

\* "" when the value deserializes into the field, else serde's complaint
FieldError(field, v) ==
    IF field = "Code"
    THEN (IF v.t # "num" THEN "invalid type: string, expected usize"
          ELSE IF v.n < 0 THEN "invalid value: integer, expected usize"
          ELSE "")
    ELSE (IF v.t # "str" THEN "invalid type: integer, expected a string" ELSE "")

SetField(ie, field, v) ==
    CASE field = "Message" -> [ie EXCEPT !.message = v.s]
      [] field = "Code" -> [ie EXCEPT !.code = v.n]
      [] field = "Type" -> [ie EXCEPT !.ty = v.s]

IsField(k) == \E i \in 1..NumFields : FieldNames[i] = k

\* the derived visit_map: unknown keys are skipped, a repeated field is an
\* error, fields that never came keep their defaults (#[serde(default)])
RECURSIVE VisitMap(_, _, _, _)
VisitMap(members, i, seen, ie) ==
    IF i > Len(members) THEN DeOk(ie)
    ELSE LET m == members[i] IN
         IF ~IsField(m.key) THEN VisitMap(members, i + 1, seen, ie)
         ELSE IF m.key \in seen THEN DeErr("duplicate field")
         ELSE IF FieldError(m.key, m.val) # "" THEN DeErr(FieldError(m.key, m.val))
         ELSE VisitMap(members, i + 1, seen \cup {m.key}, SetField(ie, m.key, m.val))

\* the derived visit_seq: the fields by position
RECURSIVE VisitSeq(_, _, _)
VisitSeq(items, i, ie) ==
    IF i > NumFields THEN DeOk(ie)
    ELSE IF FieldError(FieldNames[i], items[i].val) # ""
         THEN DeErr(FieldError(FieldNames[i], items[i].val))
    ELSE VisitSeq(items, i + 1, SetField(ie, FieldNames[i], items[i].val))

\* serde_json::from_slice::<IpfsError>(body)
from_slice(body) ==
    CASE body.form = "empty" -> DeErr("EOF while parsing a value")
      [] body.form = "text" -> DeErr("expected value")
      [] body.form = "scalar" -> DeErr("invalid type: string, expected struct IpfsError")
      [] body.form = "array" -> VisitSeq(body.members, 1, IpfsError_default)
      [] body.form = "object" -> VisitMap(body.members, 1, {}, IpfsError_default)

DeserializeIndicator == "deserialize error content: "

\* {err:?} of serde_json::Error
DebugSerdeError(err) == <<"Error(\"", err, "\")">>

\* the map_err closure
DeserializeError_Unwrapped(op, path, err) ==
    Error_new("Other", Anyhow(<<DeserializeIndicator>> \o DebugSerdeError(err)))

DeserializeError(op, path, err) ==
    Error_new("Other",
               ObjectError_new(op, path,
                              Anyhow(<<DeserializeIndicator>> \o DebugSerdeError(err))))

\* match ie.message.as_str()
MatchMessage_NeverFound(ie) == "Other"

MatchMessage_CodeToo(ie) ==
    IF ie.message = "file does not exist" /\ ie.code = 0 THEN "NotFound" ELSE "Other"

MatchMessage(ie) ==
    IF ie.message = "file does not exist" THEN "NotFound" ELSE "Other"

Retryable == {BAD_GATEWAY, SERVICE_UNAVAILABLE, GATEWAY_TIMEOUT}

\* the body is deserialized before the status code is looked at
parse_error_DeserializeFirst(op, path, er) ==
    LET ie == from_slice(er.body) IN
    IF ~ie.ok THEN DeserializeError(op, path, ie.err)
    ELSE Error_new(IF er.status = INTERNAL_SERVER_ERROR THEN MatchMessage(ie.value)
                    ELSE IF er.status \in Retryable THEN "Interrupted"
                    ELSE "Other",
                    ObjectError_new(op, path, Anyhow(DisplayErrorResponse(er))))

\* a body that does not deserialize falls through to the common return
parse_error_NoEarlyReturn(op, path, er) ==
    LET ie == from_slice(er.body) IN
    Error_new(IF er.status = INTERNAL_SERVER_ERROR
               THEN (IF ie.ok THEN MatchMessage(ie.value) ELSE "Other")
               ELSE IF er.status \in Retryable THEN "Interrupted"
               ELSE "Other",
               ObjectError_new(op, path, Anyhow(DisplayErrorResponse(er))))

\* the body decides for every status that is not retryable
parse_error_BodyOnAnyStatus(op, path, er) ==
    IF er.status \in Retryable
    THEN Error_new("Interrupted", ObjectError_new(op, path, Anyhow(DisplayErrorResponse(er))))
    ELSE LET ie == from_slice(er.body) IN
         IF ~ie.ok THEN DeserializeError(op, path, ie.err)
         ELSE Error_new(MatchMessage(ie.value),
                         ObjectError_new(op, path, Anyhow(DisplayErrorResponse(er))))

parse_error(op, path, er) ==
    LET ie == from_slice(er.body) IN
    IF er.status = INTERNAL_SERVER_ERROR /\ ~ie.ok
    THEN DeserializeError(op, path, ie.err)
    ELSE Error_new(IF er.status = INTERNAL_SERVER_ERROR THEN MatchMessage(ie.value)
                    ELSE IF er.status \in Retryable THEN "Interrupted"
                    ELSE "Other",
                    ObjectError_new(op, path, Anyhow(DisplayErrorResponse(er))))

(***************************************************************************)
(* The callers.                                                            *)
(***************************************************************************)
Init ==
    /\ call = [fn |-> "none"]
    /\ ret = [kind |-> "none"]

\* no call is in progress and no envelope is held
Idle == call.fn = "none"

Call_parse_error ==
    /\ Idle
    /\ \E op \in Operations, path \in Paths, er \in ErrorResponses :
        /\ call' = [fn |-> "parse_error", op |-> op, path |-> path, er |-> er]
        /\ ret' = parse_error(op, path, er)

Call_new_unsupported_object_error ==
    /\ Idle
    /\ \E op \in Operations, path \in Paths :
        /\ call' = [fn |-> "new_unsupported_object_error", op |-> op, path |-> path]
        /\ ret' = new_unsupported_object_error(op, path)

Call_new_other_object_error ==
    /\ Idle
    /\ \E op \in Operations, path \in Paths, source \in Sources :
        /\ call' = [fn |-> "new_other_object_error", op |-> op, path |-> path,
                    source |-> source]
        /\ ret' = new_other_object_error(op, path, source)

Call_new_other_backend_error ==
    /\ Idle
    /\ \E context \in HashMaps, source \in Sources :
        /\ call' = [fn |-> "new_other_backend_error", context |-> context,
                    source |-> source]
        /\ ret' = new_other_backend_error(context, source)

\* the caller drops the envelope, and with it the carrier and the cause
DropEnvelope ==
    /\ ~Idle
    /\ call' = [fn |-> "none"]
    /\ ret' = [kind |-> "none"]

Next ==
    \/ Call_parse_error
    \/ Call_new_unsupported_object_error
    \/ Call_new_other_object_error
    \/ Call_new_other_backend_error
    \/ DropEnvelope

Spec == Init /\ [][Next]_vars

(***************************************************************************)
(* Properties.                                                             *)
(***************************************************************************)
Parsed == call.fn = "parse_error"

\* the cause parse_error gives the ObjectError on its common return
RawResponseCause == Anyhow(DisplayErrorResponse(call.er))

HasToken(msg, t) == \E i \in 1..Len(msg) : msg[i] = t

\* C1: parse_error with status 502, 503 or 504 returns kind Interrupted for
\* every operation, path and body, and the body is not deserialized: the
\* cause is the rendered response and the message carries no mark of a
\* deserialization failure, also when the body does not deserialize.
C1_RetryableIsInterrupted ==
    (Parsed /\ call.er.status \in {502, 503, 504}) =>
        /\ ret.kind = "Interrupted"
        /\ ret.error.source = RawResponseCause
        /\ ~HasToken(Message(ret), DeserializeIndicator)

C1_Witness ==
    /\ Parsed
    /\ call.er.status = 503
    /\ call.er.body.form = "text"
    /\ ~from_slice(call.er.body).ok
    /\ ret.kind = "Interrupted"

\* C2: parse_error with status 500 and a body that deserializes returns
\* kind NotFound when the body's Message is "file does not exist" and kind
\* Other for every other Message, for every operation and path.
C2_MessageDecidesAt500 ==
    (Parsed /\ call.er.status = 500 /\ from_slice(call.er.body).ok) =>
        /\ from_slice(call.er.body).value.message = "file does not exist"
              => ret.kind = "NotFound"
        /\ from_slice(call.er.body).value.message # "file does not exist"
              => ret.kind = "Other"
        /\ call.er.body =
              Body("object", <<Member("Message", Str("file does not exist"))>>)
              => ret.kind = "NotFound"
        /\ call.er.body =
              Body("object", <<Member("Message", Str("disk quota exceeded"))>>)
              => ret.kind = "Other"

C2_Witness ==
    /\ Parsed
    /\ call.er.status = 500
    /\ call.er.body =
          Body("object", <<Member("Message", Str("file does not exist")),
                           Member("Code", Num(1))>>)
    /\ ret.kind = "NotFound"

\* C3: parse_error with status 500 and a body that does not deserialize
\* returns kind Other with a message that holds "deserialize error content"
\* and not the rendered response; the message of every other branch holds
\* the rendered response and not that mark.
C3_DeserializeFailureShortCircuits ==
    Parsed =>
        IF call.er.status = 500 /\ ~from_slice(call.er.body).ok
        THEN /\ ret.kind = "Other"
             /\ HasToken(Message(ret), DeserializeIndicator)
             /\ ~HasToken(Message(ret), "status code: ")
             /\ ret.error.source # RawResponseCause
        ELSE /\ ~HasToken(Message(ret), DeserializeIndicator)
             /\ HasToken(Message(ret), "status code: ")
             /\ ret.error.source = RawResponseCause

C3_Witness ==
    /\ Parsed
    /\ call.er.status = 500
    /\ call.er.body =
          Body("object", <<Member("Message", Str("file does not exist")),
                           Member("Message", Str("file does not exist"))>>)
    /\ ret.kind = "Other"
    /\ HasToken(Message(ret), DeserializeIndicator)

\* C4: parse_error with a status outside {500, 502, 503, 504} returns kind
\* Other whatever the operation, the path and the body.
C4_OtherStatusIsOther ==
    (Parsed /\ call.er.status \notin {500, 502, 503, 504}) => ret.kind = "Other"

C4_Witness ==
    /\ Parsed
    /\ call.er.status = 404
    /\ from_slice(call.er.body).ok
    /\ from_slice(call.er.body).value.message = "file does not exist"
    /\ ret.kind = "Other"

\* C6 (two calls of parse_error with identical inputs agree) has no formula:
\* parse_error reads its arguments only, so it is the operator parse_error
\* above, and an operator agrees with itself.

Unsupported == call.fn = "new_unsupported_object_error"

\* C5, as claimed: new_unsupported_object_error returns kind Unsupported
\* with a message that is the same for every operation and path.
C5_FixedMessage ==
    Unsupported =>
        /\ ret.kind = "Unsupported"
        /\ \A op \in Operations, path \in Paths :
              Message(new_unsupported_object_error(op, path)) = Message(ret)

\* C5, amended: new_unsupported_object_error returns kind Unsupported and
\* a cause with the fixed text; the envelope's message is the ObjectError
\* rendering, which holds the operation and the path around that text; the
\* call takes an operation and a path and no response.
C5_FixedCause ==
    Unsupported =>
        /\ ret.kind = "Unsupported"
        /\ ret.error.source =
              Anyhow(<<"operation is not supported by underlying services">>)
        /\ Message(ret) =
              <<"object error: (op: ", OperationDisplay(call.op), ", path: ",
                call.path, ", source: ",
                "operation is not supported by underlying services", ")">>
        /\ DOMAIN call = {"fn", "op", "path"}

C5_Witness ==
    /\ Unsupported
    /\ call.op = "Stat"
    /\ call.path = "dir/file"
    /\ ret.kind = "Unsupported"

\* the links of the cause chain under the envelope, outermost first
RECURSIVE Chain(_)
Chain(e) == IF e.type = "anyhow" THEN <<"anyhow">> ELSE <<e.type>> \o Chain(e.source)

\* C7: every envelope a constructor or parse_error returns has a kind and
\* holds a context carrier (ObjectError or BackendError) that holds the raw
\* cause as the innermost link: the cause the caller gave, the rendered
\* response, or the deserialization failure.
C7_CauseUnderCarrierUnderEnvelope ==
    ~Idle =>
        /\ ret.kind \in ErrorKind
        /\ Chain(ret.error) \in {<<"ObjectError", "anyhow">>, <<"BackendError", "anyhow">>}
        /\ call.fn \in {"new_other_object_error", "new_other_backend_error"}
              => ret.error.source = call.source
        /\ call.fn = "new_other_backend_error" <=> ret.error.type = "BackendError"
        /\ Parsed =>
              \/ ret.error.source = RawResponseCause
              \/ HasToken(ret.error.source.msg, DeserializeIndicator)

C7_Witness ==
    /\ Parsed
    /\ call.er.status = 500
    /\ call.er.body.form = "empty"
    /\ Chain(ret.error) = <<"ObjectError", "anyhow">>
    /\ HasToken(ret.error.source.msg, DeserializeIndicator)

BackendCall == call.fn = "new_other_backend_error"

\* the maps that are equal to m (HashMap's == compares the entries)
EqualMaps(m) == {m2 \in HashMaps : m2.entries = m.entries}

Range(s) == {s[i] : i \in 1..Len(s)}

\* how often each token occurs
TokenBag(s) == [t \in Range(s) |-> Cardinality({i \in 1..Len(s) : s[i] = t})]

\* C8, as claimed: carriers built from equal fields render to the same
\* string; for BackendError, whatever the order in which the context map
\* enumerates its entries.
C8_EqualFieldsRenderEqual ==
    /\ BackendCall =>
          \A m \in EqualMaps(call.context) :
              DisplayError(BackendError_new(m, call.source)) = Message(ret)
    /\ (~Idle /\ ret.error.type = "ObjectError") =>
          Message(ret) =
              <<"object error: (op: ", OperationDisplay(ret.error.op), ", path: ",
                ret.error.path, ", source: ">> \o ret.error.source.msg \o <<")">>

\* C8, amended: an ObjectError renders as "object error: (op: <op>, path:
\* <path>, source: <cause>)", a function of its fields.  A BackendError
\* renders as "backend error: (context: {<entries>}, source: <cause>)" with
\* the entries in the order the map enumerates them: BackendErrors built
\* from equal maps and causes render to the same text up to the order of the
\* entries, and to the same string when the map has at most one entry.
C8_RenderUpToEntryOrder ==
    /\ BackendCall =>
          /\ Message(ret) =
                <<"backend error: (context: ", "{">>
                    \o DebugEntries(call.context, 1)
                    \o <<"}", ", source: ">> \o call.source.msg \o <<")">>
          /\ \A m \in EqualMaps(call.context) :
                LET other == DisplayError(BackendError_new(m, call.source)) IN
                /\ Len(other) = Len(Message(ret))
                /\ TokenBag(other) = TokenBag(Message(ret))
                /\ (m.iter = call.context.iter
                       \/ Cardinality(DOMAIN call.context.entries) <= 1)
                      => other = Message(ret)
    /\ (~Idle /\ ret.error.type = "ObjectError") =>
          Message(ret) =
              <<"object error: (op: ", OperationDisplay(ret.error.op), ", path: ",
                ret.error.path, ", source: ">> \o ret.error.source.msg \o <<")">>

C8_Witness ==
    /\ BackendCall
    /\ Cardinality(DOMAIN call.context.entries) = 2
    /\ \E m \in EqualMaps(call.context) : m.iter # call.context.iter
    /\ HasToken(Message(ret), "backend error: (context: ")

\* C9: the envelope parse_error returns holds one ObjectError with the
\* operation and the path of the call; its cause is the rendered response,
\* or, for status 500 with a body that does not deserialize, the
\* deserialization message; its kind is the one the classification derives.
C9_ObjectErrorCarriesCall ==
    Parsed =>
        /\ Chain(ret.error) = <<"ObjectError", "anyhow">>
        /\ ret.error.op = call.op
        /\ ret.error.path = call.path
        /\ IF call.er.status = 500 /\ ~from_slice(call.er.body).ok
           THEN /\ ret.error.source =
                      Anyhow(<<DeserializeIndicator>>
                                \o DebugSerdeError(from_slice(call.er.body).err))
                /\ ret.kind = "Other"
           ELSE /\ ret.error.source = RawResponseCause
                /\ ret.kind =
                      (CASE call.er.status = 500 ->
                                MatchMessage(from_slice(call.er.body).value)
                         [] call.er.status \in {502, 503, 504} -> "Interrupted"
                         [] OTHER -> "Other")

C9_Witness ==
    /\ Parsed
    /\ call.op = "Stat"
    /\ call.path = "dir/file"
    /\ call.er.status = 500
    /\ ret.error.op = "Stat"
    /\ ret.error.path = "dir/file"
    /\ ret.kind = "NotFound"

\* the body with its Code and Type replaced
WithCodeType(body, c, t) ==
    LET put(m, i) ==
            IF m.key = "Code" \/ (body.form = "array" /\ i = 2) THEN Member(m.key, c)
            ELSE IF m.key = "Type" \/ (body.form = "array" /\ i = 3) THEN Member(m.key, t)
            ELSE m
    IN Body(body.form, [i \in 1..Len(body.members) |-> put(body.members[i], i)])

\* whether the two results of deserializing are alike: both failures, or
\* both values with the same Message
SameMessage(ie1, ie2) ==
    /\ ie1.ok = ie2.ok
    /\ ie1.ok => ie1.value.message = ie2.value.message

\* C10: the kind parse_error returns is NotFound, Interrupted or Other, and
\* is decided by the status code and, for status 500, by whether the body
\* deserializes and by its Message: a call with another operation and path,
\* or with other Code and Type in the body, returns the same kind.
C10_KindIgnoresOpPathCodeType ==
    Parsed =>
        /\ ret.kind \in {"NotFound", "Interrupted", "Other"}
        /\ \A op \in Operations, path \in Paths :
              parse_error(op, path, call.er).kind = ret.kind
        /\ LET ie == from_slice(call.er.body) IN
           \A c \in JsonValues, t \in JsonValues :
              LET body == WithCodeType(call.er.body, c, t) IN
              SameMessage(ie, from_slice(body)) =>
                  parse_error(call.op, call.path,
                             [status |-> call.er.status, body |-> body]).kind = ret.kind

C10_Witness ==
    /\ Parsed
    /\ call.er.status = 500
    /\ call.er.body =
          Body("object", <<Member("Message", Str("file does not exist")),
                           Member("Code", Num(1))>>)
    /\ ret.kind = "NotFound"
    /\ \E c \in JsonValues :
          LET body == WithCodeType(call.er.body, c, c) IN
          /\ SameMessage(from_slice(call.er.body), from_slice(body))
          /\ from_slice(body).value.code # from_slice(call.er.body).value.code

====
